---- MODULE Spec2Model ----
(***************************************************************************)
(* State-machine model of StableDiffusionMemoryOptimizedPipeline           *)
(* (src/pipelines/stable_diffusion/impl_memory_optimized.rs): one call of  *)
(* txt2img on a constructed pipeline, with encode_prompt, the denoising    *)
(* loop, the callback gate and decode_latents / approximate_decode_latents.*)
(*                                                                         *)
(* Tensors are records [shape, rows]: shape is the ndarray shape, rows has *)
(* one integer per index of axis 0 (all elements of a batch row carry the  *)
(* same value).  Option<T> is a sequence: <<>> is None.                    *)
(***************************************************************************)
EXTENDS Integers, Sequences, FiniteSets

\* ------------------------------------------------------------------ bounds
MaxBatch == 2
MaxSteps == 2
MaxOrder == 2
MaxT == 3
MaxFreq == 2

\* ------------------------------------------------------------ input domains
PromptWords == <<"fox", "owl", "elk", "yak">>
NegativeWords == <<"blur", "haze", "dust", "fog">>
Prompts == {SubSeq(PromptWords, 1, b) : b \in 1..MaxBatch}
NegativePrompts == {<<>>} \cup {SubSeq(NegativeWords, 1, n) : n \in 1..MaxBatch}
GuidanceScales == {1, 3}
Heights == {8, 12}
Widths == {8, 12, 16}
Seeds == {1, 2}
CallbackKinds == {"Progress", "Latents", "Decoded", "ApproximateDecoded"}
Callbacks == {[kind |-> "None", frequency |-> 1]}
               \cup [kind : CallbackKinds, frequency : 1..MaxFreq]

\* ------------------------------------------------------------ tensor helpers
RECURSIVE Product(_)
Product(s) == IF s = <<>> THEN 1 ELSE Head(s) * Product(Tail(s))

Tensor(shape, rows) == [shape |-> shape, rows |-> rows]
NoTensor == Tensor(<<>>, <<>>)
Rows(x) == Len(x.rows)

\* ndarray::concatenate![Axis(0), a, b]
Concatenate(a, b) ==
    Tensor(<<a.shape[1] + b.shape[1]>> \o Tail(a.shape), a.rows \o b.rows)

\* Prompt::default_batched(batch_size): a batch of empty strings
DefaultBatched(batch_size) == [j \in 1..batch_size |-> ""]

NoResult == [kind |-> "None", error |-> "", images |-> <<>>]
Ok(images) == [kind |-> "Ok", error |-> "", images |-> images]
Err(error) == [kind |-> "Err", error |-> error, images |-> <<>>]
Panic(msg) == [kind |-> "Panic", error |-> msg, images |-> <<>>]

\* The scheduler the caller hands in, before the call touches it.
FreshScheduler == [num_inference_steps |-> 0, timesteps |-> <<>>, steps_taken |-> 0]

VARIABLES
    pc,               \* position of the call
    lpw,              \* self.options.lpw
    prompt,           \* prompt: Prompt (argument)
    options,          \* StableDiffusionTxt2ImgOptions (argument), order = S::order()
    rng,              \* StdRng of the call: [seed, draws]
    resident,         \* model stages (ort Sessions) currently alive
    scheduler,        \* the caller's scheduler (&mut S)
    negative_prompt,  \* encode_prompt's local negative_prompt after normalisation
    uncond_input,     \* the unconditional batch handed to the tokenizer / lpw
    text_embeddings,  \* txt2img's text_embeddings
    latents,          \* txt2img's latents
    num_warmup_steps, \* txt2img's num_warmup_steps (usize)
    i,                \* loop index of the denoising loop
    decode_for,       \* which call site decode_latents is running for
    payload,          \* images computed for the callback about to be invoked
    steplog,          \* history: one record per completed loop body 287-317
    cblog,            \* history: one record per callback invocation
    gatelog,          \* history: one record per evaluation of the gate 319-336
    events,           \* history: stage loads/drops and collaborator operations
    result            \* what txt2img returned

vars == <<pc, lpw, prompt, options, rng, resident, scheduler, negative_prompt,
          uncond_input, text_embeddings, latents, num_warmup_steps, i,
          decode_for, payload, steplog, cblog, gatelog, events, result>>

NoOptions == [steps |-> 0, seed |-> <<>>, height |-> 0, width |-> 0,
              guidance_scale |-> 0, negative_prompt |-> <<>>,
              callback |-> [kind |-> "None", frequency |-> 1], order |-> 1]

\* StableDiffusionMemoryOptimizedPipeline::new: nothing is loaded yet.
Init ==
    /\ pc = "idle"
    /\ lpw \in BOOLEAN
    /\ prompt = <<>>
    /\ options = NoOptions
    /\ rng = [seed |-> 0, draws |-> 0]
    /\ resident = {}
    /\ scheduler = FreshScheduler
    /\ negative_prompt = <<>>
    /\ uncond_input = <<>>
    /\ text_embeddings = NoTensor
    /\ latents = NoTensor
    /\ num_warmup_steps = 0
    /\ i = 0
    /\ decode_for = "none"
    /\ payload = <<>>
    /\ steplog = <<>>
    /\ cblog = <<>>
    /\ gatelog = <<>>
    /\ events = <<>>
    /\ result = NoResult

\* ------------------------------------------------------------ txt2img entry
\* mutation of DimensionsValid: only the height is validated
DimensionsValidHeightOnly(height, width) == height % 8 = 0

\* line 265
DimensionsValid(height, width) == height % 8 = 0 /\ width % 8 = 0

\* mutation of DoClassifierFreeGuidance: guidance also at a scale of exactly 1
DoClassifierFreeGuidanceInclusive(guidance_scale) == guidance_scale >= 1

\* line 272
DoClassifierFreeGuidance(guidance_scale) == guidance_scale > 1

\* mutation of BroadcastNegative: only the first entry is the negative prompt
BroadcastNegativeFirstOnly(batch_size, neg) ==
    [j \in 1..batch_size |-> IF j = 1 THEN neg[1] ELSE ""]

\* encode_prompt line 137
BroadcastNegative(batch_size, neg) ==
    [j \in 1..batch_size |-> neg[1]]

\* encode_prompt lines 135-144: "ok" is FALSE where assert_eq! panics.
NormaliseNegativePrompt(batch_size, neg) ==
    IF neg = <<>> THEN [ok |-> TRUE, value |-> <<>>]
    ELSE IF batch_size > 1 /\ Len(neg) = 1
         THEN [ok |-> TRUE, value |-> BroadcastNegative(batch_size, neg)]
         ELSE [ok |-> batch_size = Len(neg), value |-> neg]

\* mutation of ResolveSeed: the generator is always seeded from thread_rng
ResolveSeedRandom(seedopt, random) == random

\* line 262: options.seed.unwrap_or_else(|| rand::thread_rng().gen::<u64>())
ResolveSeed(seedopt, random) == IF seedopt = <<>> THEN random ELSE seedopt[1]

\* txt2img lines 260-273 up to the load inside encode_prompt (134-144);
\* s0 is what thread_rng yields when asked.
Txt2ImgBegin ==
    /\ pc = "idle"
    /\ \E p \in Prompts, neg \in NegativePrompts, g \in GuidanceScales,
          h \in Heights, w \in Widths, n \in 1..MaxSteps,
          seedopt \in {<<>>} \cup {<<s>> : s \in Seeds}, s0 \in Seeds,
          cb \in Callbacks, ord \in 1..MaxOrder :
        LET opts == [steps |-> n, seed |-> seedopt, height |-> h, width |-> w,
                     guidance_scale |-> g, negative_prompt |-> neg,
                     callback |-> cb, order |-> ord]
            seed == ResolveSeed(seedopt, s0)
            norm == NormaliseNegativePrompt(Len(p), neg)
        IN  /\ prompt' = p
            /\ options' = opts
            /\ rng' = [seed |-> seed, draws |-> 0]
            /\ IF ~DimensionsValid(h, w)
               THEN /\ result' = Err("ValidationError")
                    /\ pc' = "done"
                    /\ negative_prompt' = negative_prompt
               ELSE IF ~norm.ok
               THEN /\ result' = Panic("assertion failed: batch_size == negative_prompt.len()")
                    /\ pc' = "done"
                    /\ negative_prompt' = negative_prompt
               ELSE /\ result' = result
                    /\ pc' = "load_text_encoder"
                    /\ negative_prompt' = norm.value
    /\ UNCHANGED <<lpw, resident, scheduler, uncond_input, text_embeddings,
                   latents, num_warmup_steps, i, decode_for, payload, steplog,
                   cblog, gatelog, events>>

\* mutation of Return: sessions are kept alive past the return
ReturnKeepingSessions(r) ==
    /\ result' = r
    /\ pc' = "done"
    /\ resident' = resident

\* On every return of txt2img its locals are dropped: whatever is resident goes.
Return(r) ==
    /\ result' = r
    /\ pc' = "done"
    /\ resident' = {}

\* ------------------------------------------------------------ encode_prompt
\* The external text model: one embedding row per string, distinct strings
\* giving distinct rows.
WordCode(w) ==
    CASE w = "" -> 0
      [] w = "blur" -> 1 [] w = "haze" -> 2 [] w = "dust" -> 3 [] w = "fog" -> 4
      [] w = "fox" -> 5 [] w = "owl" -> 7 [] w = "elk" -> 11 [] w = "yak" -> 13

\* tokenizer.encode_for_text_model(batch) followed by text_encoder.run(..)[0]
TextEncoderRun(batch) ==
    Tensor(<<Len(batch), 77, 768>>, [j \in 1..Len(batch) |-> WordCode(batch[j])])

\* crate::pipelines::lpw::get_weighted_text_embeddings: (conditional,
\* Option<unconditional>), the latter present when an unconditional prompt is given.
GetWeightedTextEmbeddings(p, uncond) ==
    <<TextEncoderRun(p), IF uncond = <<>> THEN <<>> ELSE <<TextEncoderRun(uncond)>>>>

\* mutation of ConcatEmbeddings: conditional rows first
ConcatEmbeddingsCondFirst(uncond_embeddings, cond_embeddings) ==
    Concatenate(cond_embeddings, uncond_embeddings)

\* lines 164 and 180: concatenate![Axis(0), uncond_embeddings, text_embeddings]
ConcatEmbeddings(uncond_embeddings, cond_embeddings) ==
    Concatenate(uncond_embeddings, cond_embeddings)

\* lines 153-157 (lpw) and 176 (plain): the unconditional batch that is encoded
UncondInput(is_lpw, guidance, neg, batch_size) ==
    IF is_lpw
    THEN IF guidance /\ neg = <<>> THEN DefaultBatched(batch_size) ELSE neg
    ELSE IF guidance
         THEN (IF neg = <<>> THEN DefaultBatched(batch_size) ELSE neg)
         ELSE <<>>

\* lines 148-184
EncodeEmbeddings(is_lpw, p, guidance, neg) ==
    LET uncond == UncondInput(is_lpw, guidance, neg, Len(p)) IN
    IF is_lpw
    THEN LET embeddings == GetWeightedTextEmbeddings(p, uncond) IN
         IF guidance /\ embeddings[2] # <<>>
         THEN ConcatEmbeddings(embeddings[2][1], embeddings[1])
         ELSE embeddings[1]
    ELSE IF guidance
         THEN ConcatEmbeddings(TextEncoderRun(uncond), TextEncoderRun(p))
         ELSE TextEncoderRun(p)

\* mutation of EncodeEvents: the stage is reloaded for the second pass
EncodeEventsReloading(is_lpw, guidance) ==
    IF ~is_lpw /\ guidance
    THEN <<<<"run", "TextEncoder">>, <<"drop", "TextEncoder">>, <<"load", "TextEncoder">>,
           <<"run", "TextEncoder">>, <<"drop", "TextEncoder">>>>
    ELSE <<<<"run", "TextEncoder">>, <<"drop", "TextEncoder">>>>

\* lines 148-187: the embedding passes on the one text_encoder session (one
\* inside get_weighted_text_embeddings, else lines 170 and 178), then its drop
\* at the return
EncodeEvents(is_lpw, guidance) ==
    (IF ~is_lpw /\ guidance
     THEN <<<<"run", "TextEncoder">>, <<"run", "TextEncoder">>>>
     ELSE <<<<"run", "TextEncoder">>>>)
    \o <<<<"drop", "TextEncoder">>>>

\* line 146; load_text_encoder lines 122-124
LoadTextEncoder ==
    /\ pc = "load_text_encoder"
    /\ \E ok \in BOOLEAN :
        IF ok
        THEN /\ resident' = resident \cup {"TextEncoder"}
             /\ events' = Append(events, <<"load", "TextEncoder">>)
             /\ pc' = "embed"
             /\ result' = result
        ELSE /\ Return(Err("LoadError"))
             /\ events' = events
    /\ UNCHANGED <<lpw, prompt, options, rng, scheduler, negative_prompt,
                   uncond_input, text_embeddings, latents, num_warmup_steps, i,
                   decode_for, payload, steplog, cblog, gatelog>>

\* lines 148-187: the embedding passes, then text_encoder goes out of scope.
EncodePrompt ==
    /\ pc = "embed"
    /\ LET guidance == DoClassifierFreeGuidance(options.guidance_scale) IN
       \E ok \in BOOLEAN :
        IF ok
        THEN /\ uncond_input' = UncondInput(lpw, guidance, negative_prompt, Len(prompt))
             /\ text_embeddings' = EncodeEmbeddings(lpw, prompt, guidance, negative_prompt)
             /\ events' = events \o EncodeEvents(lpw, guidance)
             /\ resident' = resident \ {"TextEncoder"}
             /\ pc' = "prepare"
             /\ result' = result
        ELSE /\ Return(Err("InferenceError"))
             /\ events' = Append(events, <<"drop", "TextEncoder">>)
             /\ UNCHANGED <<uncond_input, text_embeddings>>
    /\ UNCHANGED <<lpw, prompt, options, rng, scheduler, negative_prompt,
                   latents, num_warmup_steps, i, decode_for, payload, steplog,
                   cblog, gatelog>>

\* ------------------------------------------------------------ the scheduler
\* DiffusionScheduler (crate::schedulers): the timestep sequence it lays out,
\* its initial sigma, its input scaling and its update rule.
SchedulerTimesteps(n) == [k \in 1..n |-> 10 * (n - k) + 1]
InitNoiseSigma == 2
ScaleModelInput(sample, t) == sample
\* elementwise sample - model_output, model_output broadcast along axis 0
SchedulerStep(model_output, t, sample) ==
    Tensor(sample.shape,
           [j \in 1..Rows(sample) |->
               sample.rows[j] - model_output.rows[IF Rows(model_output) = 1 THEN 1 ELSE j]])

\* ------------------------------------------------------------ latents
\* Array4::random_using(latents_shape, StandardNormal, &mut rng), line 276
SampleLatents(shape, r) ==
    Tensor(shape, [j \in 1..shape[1] |-> r.seed + r.draws + 2 * j])

\* line 275
LatentsShape(batch_size, height, width) == <<batch_size, 4, height \div 8, width \div 8>>

\* usize arithmetic of line 282 in a build without overflow checks
UsizeModulus == 2 ^ 16
WrappingSub(a, b) == (a - b) % UsizeModulus

\* lines 275-282
PrepareLatents ==
    /\ pc = "prepare"
    /\ \E len \in 1..MaxT, overflow_checks \in BOOLEAN :
        LET shape == LatentsShape(Len(prompt), options.height, options.width)
            noise == SampleLatents(shape, rng)
            need == options.steps * options.order
        IN  /\ rng' = [rng EXCEPT !.draws = @ + Product(shape)]
            /\ scheduler' = [num_inference_steps |-> options.steps,
                             timesteps |-> SchedulerTimesteps(len),
                             steps_taken |-> 0]
            /\ latents' = Tensor(shape, [j \in 1..Rows(noise) |-> noise.rows[j] * InitNoiseSigma])
            /\ events' = Append(events, <<"set_timesteps", "Scheduler">>)
            /\ len >= need => overflow_checks
            /\ IF len < need /\ overflow_checks
               THEN /\ Return(Panic("attempt to subtract with overflow"))
                    /\ num_warmup_steps' = num_warmup_steps
               ELSE /\ num_warmup_steps' = WrappingSub(len, need)
                    /\ pc' = "load_unet"
                    /\ UNCHANGED <<result, resident>>
    /\ UNCHANGED <<lpw, prompt, options, negative_prompt, uncond_input,
                   text_embeddings, i, decode_for, payload, steplog, cblog, gatelog>>

\* ------------------------------------------------------------ decoding
\* mutation of Clamp: only the upper limit is applied
ClampUpperOnly(f, lo, hi) == IF f > hi THEN hi ELSE f

\* f32::clamp, lines 191 and 222
Clamp(f, lo, hi) == IF f < lo THEN lo ELSE IF f > hi THEN hi ELSE f

\* to_image lines 189-194; pixel values are in thousandths.  from_raw gives
\* None when the buffer is shorter than width * height * 3.
ToImage(width, height, arr) ==
    IF width * height * 3 <= Product(arr.shape)
    THEN <<[width |-> width, height |-> height, pixel |-> Clamp(arr.rows[1], 0, 1000)]>>
    ELSE <<>>

\* The external VAE decoder network on one latent chunk (1, 4, h, w):
\* output (1, 3, 8h, 8w), values in thousandths.
VaeDecoderRun(chunk) ==
    Tensor(<<1, 3, 8 * chunk.shape[3], 8 * chunk.shape[4]>>, <<100 * chunk.rows[1]>>)

\* line 212: latents = 1.0 / 0.18215 * latents
ScaleLatents(x) ==
    Tensor(x.shape, [j \in 1..Rows(x) |-> (x.rows[j] * 100000) \div 18215])

\* one row of axis_iter(Axis(0)) with insert_axis(Axis(0))
Chunk(x, j) == Tensor(<<1>> \o Tail(x.shape), <<x.rows[j]>>)

\* lines 218-224 for one chunk: run, permuted_axes([0, 2, 3, 1]), f / 2 + 0.5,
\* clamp, to_image(shape[1], shape[2], ..)
DecodeChunk(chunk) ==
    LET image == VaeDecoderRun(chunk)
        f_image == Tensor(<<image.shape[1], image.shape[3], image.shape[4], image.shape[2]>>,
                          <<Clamp(image.rows[1] \div 2 + 500, 0, 1000)>>)
    IN  ToImage(f_image.shape[2], f_image.shape[3], f_image)

\* decode_latents lines 211-229, given that the stage loaded and ran:
\* one Option<image> per batch row
DecodeLatents(x) ==
    LET latent_vae_input == ScaleLatents(x)
    IN  [j \in 1..Rows(x) |-> DecodeChunk(Chunk(latent_vae_input, j))]

\* approximate_decode_latents lines 197-208: einsum("blxy,lr->bxyr") with the
\* first column of coefs (0.298 + 0.187 - 0.158 - 0.184), times 1.2
ApproximateDecodeLatents(x) ==
    LET approx == Tensor(<<x.shape[1], x.shape[3], x.shape[4], 3>>,
                         [j \in 1..Rows(x) |-> x.rows[j] * 143])
    IN  [j \in 1..Rows(x) |->
            LET c == Chunk(approx, j)
                approx_chunk == Tensor(c.shape, <<(c.rows[1] * 12) \div 10>>)
            IN  ToImage(approx_chunk.shape[2], approx_chunk.shape[3], approx_chunk)]

AllConstructed(imgs) == \A j \in 1..Len(imgs) : imgs[j] # <<>>
Unwrap(imgs) == [j \in 1..Len(imgs) |-> imgs[j][1]]

\* ------------------------------------------------------------ denoising loop
\* The external UNet: a noise prediction shaped like the latent input, each
\* row depending on the latent row, on the embedding row at that position
\* and on the timestep (the three inputs of lines 297-305).
UNetRun(latent_model_input, t, encoder_hidden_states) ==
    Tensor(latent_model_input.shape,
           [r \in 1..Rows(latent_model_input) |->
               latent_model_input.rows[r] + encoder_hidden_states.rows[r] - t])

\* lines 288-292
LatentModelInput(guidance, x) == IF guidance THEN Concatenate(x, x) ELSE x

\* lines 309-313: the first two rows of axis_iter(Axis(0))
ApplyGuidance(noise_pred, guidance_scale) ==
    LET noise_pred_uncond == Chunk(noise_pred, 1)
        noise_pred_text == Chunk(noise_pred, 2)
    IN  Tensor(noise_pred_uncond.shape,
               <<noise_pred_uncond.rows[1]
                   + guidance_scale * (noise_pred_text.rows[1] - noise_pred_uncond.rows[1])>>)

\* lines 307-314
NoisePred(guidance, unet_out, guidance_scale) ==
    IF guidance THEN ApplyGuidance(unet_out, guidance_scale) ELSE unet_out

\* line 320
CallbackGate(idx, len, warmup, order) ==
    idx = len - 1 \/ ((idx + 1) > warmup /\ (idx + 1) % order = 0)

\* the match guards of lines 322-329
VariantFires(cb, idx) ==
    CASE cb.kind \in {"Progress", "Latents"} -> idx % cb.frequency = 0
      [] cb.kind \in {"Decoded", "ApproximateDecoded"} -> idx # 0 /\ idx % cb.frequency = 0
      [] OTHER -> FALSE

\* mutation of LoopNext: the loop leaves before the last timestep
LoopNextSkipsLast(idx, len) == IF idx + 2 < len THEN "denoise" ELSE "drop_unet"

\* The for loop's next position after the body of index idx.
LoopNext(idx, len) == IF idx + 1 < len THEN "denoise" ELSE "drop_unet"

\* mutation of AfterCallback: the callback's return value is ignored
AfterCallbackIgnoresReturn(keep_going, idx, len) == LoopNext(idx, len)

\* lines 332-334
AfterCallback(keep_going, idx, len) == IF keep_going THEN LoopNext(idx, len) ELSE "drop_unet"

\* line 285; load_unet lines 128-130
LoadUnet ==
    /\ pc = "load_unet"
    /\ \E ok \in BOOLEAN :
        IF ok
        THEN /\ resident' = resident \cup {"UNet"}
             /\ events' = Append(events, <<"load", "UNet">>)
             /\ pc' = "denoise"
             /\ result' = result
        ELSE /\ Return(Err("LoadError"))
             /\ events' = events
    /\ i' = 0
    /\ UNCHANGED <<lpw, prompt, options, rng, scheduler, negative_prompt,
                   uncond_input, text_embeddings, latents, num_warmup_steps,
                   decode_for, payload, steplog, cblog, gatelog>>

\* mutation of LatentsAfterStep: the latents keep the step's input
LatentsBeforeStep(latents_in, prev_sample) == latents_in

\* line 317: the step's prev_sample replaces the latents
LatentsAfterStep(latents_in, prev_sample) == prev_sample

\* lines 287-331 for index i: model input, unet.run, guidance, scheduler.step,
\* then the gate and the payload of the variants that need no stage.
DenoiseStep ==
    /\ pc = "denoise"
    /\ LET t == scheduler.timesteps[i + 1]
           len == Len(scheduler.timesteps)
           guidance == DoClassifierFreeGuidance(options.guidance_scale)
           latent_model_input == ScaleModelInput(LatentModelInput(guidance, latents), t)
           unet_out == UNetRun(latent_model_input, t, text_embeddings)
           noise_pred == NoisePred(guidance, unet_out, options.guidance_scale)
           prev_sample == SchedulerStep(noise_pred, t, latents)
           latents_next == LatentsAfterStep(latents, prev_sample)
           cb == options.callback
           gate == cb.kind # "None" /\ CallbackGate(i, len, num_warmup_steps, options.order)
           fires == gate /\ VariantFires(cb, i)
       IN
       \E ok \in BOOLEAN :
        IF ok
        THEN /\ latents' = latents_next
             /\ scheduler' = [scheduler EXCEPT !.steps_taken = @ + 1]
             /\ steplog' = Append(steplog,
                   [i |-> i, t |-> t, latents_in |-> latents,
                    latent_model_input |-> latent_model_input,
                    encoder_hidden_states |-> text_embeddings,
                    unet_out |-> unet_out, noise_pred |-> noise_pred,
                    rng |-> rng, prev_sample |-> prev_sample])
             /\ events' = events \o <<<<"run", "UNet">>, <<"step", "Scheduler">>>>
             /\ gatelog' = IF cb.kind # "None"
                           THEN Append(gatelog, [i |-> i, fired |-> fires])
                           ELSE gatelog
             /\ payload' = IF fires /\ cb.kind = "ApproximateDecoded"
                           THEN Unwrap(ApproximateDecodeLatents(latents_next))
                           ELSE <<>>
             /\ decode_for' = IF fires /\ cb.kind = "Decoded" THEN "callback" ELSE decode_for
             /\ pc' = IF fires
                      THEN (IF cb.kind = "Decoded" THEN "decode_load" ELSE "invoke_callback")
                      ELSE LoopNext(i, len)
             /\ i' = IF ~fires /\ LoopNext(i, len) = "denoise" THEN i + 1 ELSE i
             /\ UNCHANGED <<result, resident>>
        ELSE /\ Return(Err("InferenceError"))
             /\ events' = Append(events, <<"drop", "UNet">>)
             /\ UNCHANGED <<latents, scheduler, steplog, gatelog, payload, decode_for, i>>
    /\ UNCHANGED <<lpw, prompt, options, rng, negative_prompt, uncond_input,
                   text_embeddings, num_warmup_steps, cblog>>

\* lines 321-334: cb(i, t, payload) and the break
InvokeCallback ==
    /\ pc = "invoke_callback"
    /\ \E keep_going \in BOOLEAN :
        LET next == AfterCallback(keep_going, i, Len(scheduler.timesteps)) IN
        /\ cblog' = Append(cblog,
              [i |-> i, t |-> scheduler.timesteps[i + 1], kind |-> options.callback.kind,
               latents |-> IF options.callback.kind = "Latents" THEN latents ELSE NoTensor,
               images |-> payload, keep_going |-> keep_going])
        /\ pc' = next
        /\ i' = IF keep_going /\ next = "denoise" THEN i + 1 ELSE i
    /\ payload' = <<>>
    /\ UNCHANGED <<lpw, prompt, options, rng, resident, scheduler, negative_prompt,
                   uncond_input, text_embeddings, latents, num_warmup_steps,
                   decode_for, steplog, gatelog, events, result>>

\* mutation of DropUnet: the final decode starts with the UNet still alive
DropUnetSkipped ==
    /\ pc = "drop_unet"
    /\ decode_for' = "final"
    /\ pc' = "decode_load"
    /\ UNCHANGED <<lpw, prompt, options, rng, resident, scheduler, negative_prompt,
                   uncond_input, text_embeddings, latents, num_warmup_steps, i,
                   payload, steplog, cblog, gatelog, events, result>>

\* line 339: std::mem::drop(unet)
DropUnet ==
    /\ pc = "drop_unet"
    /\ resident' = resident \ {"UNet"}
    /\ events' = Append(events, <<"drop", "UNet">>)
    /\ decode_for' = "final"
    /\ pc' = "decode_load"
    /\ UNCHANGED <<lpw, prompt, options, rng, scheduler, negative_prompt,
                   uncond_input, text_embeddings, latents, num_warmup_steps, i,
                   payload, steplog, cblog, gatelog, result>>

\* What an error return of txt2img drops besides the decoder.
DropsOnError == IF "UNet" \in resident THEN <<<<"drop", "UNet">>>> ELSE <<>>

\* decode_latents line 214; load_vae_decoder lines 125-127
DecodeLatentsLoad ==
    /\ pc = "decode_load"
    /\ \E ok \in BOOLEAN :
        IF ok
        THEN /\ resident' = resident \cup {"VaeDecoder"}
             /\ events' = Append(events, <<"load", "VaeDecoder">>)
             /\ pc' = "decode_run"
             /\ result' = result
        ELSE /\ Return(Err("LoadError"))
             /\ events' = events \o DropsOnError
    /\ UNCHANGED <<lpw, prompt, options, rng, scheduler, negative_prompt,
                   uncond_input, text_embeddings, latents, num_warmup_steps, i,
                   decode_for, payload, steplog, cblog, gatelog>>

\* decode_latents lines 215-229, then the return to its call site
\* (line 325 inside the loop, line 342 at the end).
DecodeLatentsRun ==
    /\ pc = "decode_run"
    /\ LET imgs == DecodeLatents(latents) IN
       \E ok \in BOOLEAN :
        IF ok /\ AllConstructed(imgs)
        THEN /\ events' = events \o <<<<"run", "VaeDecoder">>, <<"drop", "VaeDecoder">>>>
             /\ IF decode_for = "callback"
                THEN /\ payload' = Unwrap(imgs)
                     /\ resident' = resident \ {"VaeDecoder"}
                     /\ pc' = "invoke_callback"
                     /\ result' = result
                ELSE /\ Return(Ok(Unwrap(imgs)))
                     /\ payload' = payload
        ELSE /\ Return(Err(IF ok THEN "DecodeError" ELSE "InferenceError"))
             /\ events' = events \o <<<<"drop", "VaeDecoder">>>> \o DropsOnError
             /\ payload' = payload
    /\ UNCHANGED <<lpw, prompt, options, rng, scheduler, negative_prompt,
                   uncond_input, text_embeddings, latents, num_warmup_steps, i,
                   decode_for, steplog, cblog, gatelog>>

Next ==
    \/ Txt2ImgBegin
    \/ LoadTextEncoder
    \/ EncodePrompt
    \/ PrepareLatents
    \/ LoadUnet
    \/ DenoiseStep
    \/ InvokeCallback
    \/ DropUnet
    \/ DecodeLatentsLoad
    \/ DecodeLatentsRun

Spec == Init /\ [][Next]_vars

\* Every collaborator call returns, so the call always takes its next step.
FairSpec == Spec /\ WF_vars(Next)

\* ------------------------------------------------------------ direct decoding
\* approximate_decode_latents and decode_latents are public: a caller may hand
\* them any latent tensor.
LatentValues == {-1000, -1, 0, 1, 1000}
LatentSides == {1, 2}
DecodeInputs ==
    {Tensor(<<b, 4, h, w>>, rows) :
        b \in 1..MaxBatch, h \in LatentSides, w \in LatentSides,
        rows \in UNION {[1..n -> LatentValues] : n \in 1..MaxBatch}}

DecodeInit ==
    /\ pc = "decode_idle"
    /\ lpw \in BOOLEAN
    /\ latents \in {x \in DecodeInputs : Rows(x) = x.shape[1]}
    /\ prompt = <<>>
    /\ options = NoOptions
    /\ rng = [seed |-> 0, draws |-> 0]
    /\ resident = {}
    /\ scheduler = FreshScheduler
    /\ negative_prompt = <<>>
    /\ uncond_input = <<>>
    /\ text_embeddings = NoTensor
    /\ num_warmup_steps = 0
    /\ i = 0
    /\ decode_for = "none"
    /\ payload = <<>>
    /\ steplog = <<>>
    /\ cblog = <<>>
    /\ gatelog = <<>>
    /\ events = <<>>
    /\ result = NoResult

\* approximate_decode_latents lines 197-208, called directly
ApproximateDecodeCall ==
    /\ pc = "decode_idle"
    /\ LET imgs == ApproximateDecodeLatents(latents) IN
       IF AllConstructed(imgs)
       THEN Return(Ok(Unwrap(imgs)))
       ELSE Return(Err("DecodeError"))
    /\ UNCHANGED <<lpw, prompt, options, rng, scheduler, negative_prompt,
                   uncond_input, text_embeddings, latents, num_warmup_steps, i,
                   decode_for, payload, steplog, cblog, gatelog, events>>

\* decode_latents lines 211-213, called directly
DecodeLatentsCall ==
    /\ pc = "decode_idle"
    /\ pc' = "decode_load"
    /\ decode_for' = "final"
    /\ UNCHANGED <<lpw, prompt, options, rng, resident, scheduler, negative_prompt,
                   uncond_input, text_embeddings, latents, num_warmup_steps, i,
                   payload, steplog, cblog, gatelog, events, result>>

DecodeNext ==
    \/ ApproximateDecodeCall
    \/ DecodeLatentsCall
    \/ DecodeLatentsLoad
    \/ DecodeLatentsRun

DecodeSpec == DecodeInit /\ [][DecodeNext]_vars

\* ======================================================================
\* Properties
\* ======================================================================
BatchSize == Len(prompt)
Started == pc # "idle"
Encoded == text_embeddings # NoTensor
\* the latents the scheduler step of index k produced
StepOutput(k) == steplog[k + 1].prev_sample

\* C1: in every reachable state of a txt2img call at most one model stage
\* (TextEncoder, UNet, VaeDecoder) is resident.
C1_AtMostOneStageResident == Cardinality(resident) <= 1

\* C2: a call whose height or width is not a multiple of 8 ends with a
\* validation error, and then no stage has been loaded, no tokenizer, encoder
\* or denoiser operation has run and the scheduler is untouched.
C2_InvalidDimensionsFailFirst ==
    (Started /\ (options.height % 8 # 0 \/ options.width % 8 # 0)) =>
        /\ pc = "done"
        /\ result = Err("ValidationError")
        /\ resident = {}
        /\ events = <<>>
        /\ steplog = <<>>
        /\ ~Encoded
        /\ scheduler = FreshScheduler

C2_Witness ==
    /\ pc = "done"
    /\ options.height % 8 = 0
    /\ options.width % 8 # 0
    /\ result.kind = "Err"

\* C3: with guidance enabled (guidance_scale > 1), for every batch size B and
\* denoiser output of 2B rows, the noise prediction passed to the scheduler
\* step has B rows and row j is uncond_j + guidance_scale * (cond_j - uncond_j),
\* uncond_j being row j and cond_j row B + j of the denoiser output.
C3_GuidanceCombinesHalves ==
    \A k \in 1..Len(steplog) :
        LET e == steplog[k] IN
        (options.guidance_scale > 1 /\ Rows(e.unet_out) = 2 * BatchSize) =>
            /\ Rows(e.noise_pred) = BatchSize
            /\ e.noise_pred.shape[1] = BatchSize
            /\ \A j \in 1..BatchSize :
                   j <= Rows(e.noise_pred) =>
                   e.noise_pred.rows[j] =
                       e.unet_out.rows[j]
                         + options.guidance_scale
                             * (e.unet_out.rows[BatchSize + j] - e.unet_out.rows[j])

\* What holds of a call once the callback has returned false at cblog[c]:
\* nothing of the loop runs past that index and no callback follows.
StopsAt(c) ==
    LET k == cblog[c].i IN
    /\ c = Len(cblog)
    /\ Len(steplog) = k + 1
    /\ \A s \in 1..Len(steplog) : steplog[s].i <= k
    /\ scheduler.steps_taken = k + 1
    /\ latents = StepOutput(k)
    /\ pc \in {"drop_unet", "decode_load", "decode_run", "done"}

\* C4 as stated: if the callback returns false at index k, no denoiser run and
\* no scheduler step of an index > k is executed, no callback is invoked again,
\* and the call returns successfully the full decode of the latents produced
\* by the scheduler step at index k.
C4_CancelReturnsDecodeOk ==
    \A c \in 1..Len(cblog) :
        ~cblog[c].keep_going =>
            /\ StopsAt(c)
            /\ pc = "done" => result = Ok(Unwrap(DecodeLatents(StepOutput(cblog[c].i))))

\* C4 amended: if the callback returns false at index k, no denoiser run and no
\* scheduler step of an index > k is executed, no callback is invoked again,
\* and the call returns the outcome of the final full decode of exactly the
\* latents produced by the scheduler step at index k: those images as a
\* success, or the error (stage load, inference, image construction) that
\* this final decode itself raised.
C4_CancelReturnsFinalDecode ==
    \A c \in 1..Len(cblog) :
        ~cblog[c].keep_going =>
            /\ StopsAt(c)
            /\ pc = "done" =>
                 /\ decode_for = "final"
                 /\ \/ result = Ok(Unwrap(DecodeLatents(StepOutput(cblog[c].i))))
                    \/ /\ result.kind = "Err"
                       /\ result.error \in {"LoadError", "InferenceError", "DecodeError"}

C4_Witness ==
    /\ pc = "done"
    /\ result.kind = "Ok"
    /\ cblog # <<>>
    /\ ~cblog[Len(cblog)].keep_going
    /\ Len(steplog) < Len(scheduler.timesteps)

\* C5: for a prompt of batch size B and a supplied negative prompt of batch
\* size N # B, other than the broadcast case (B > 1, N = 1), generation fails
\* with a ValidationError returned to the caller as an error result.
C5_MismatchIsValidationError ==
    LET n == Len(options.negative_prompt) IN
    (Started /\ n # 0 /\ n # BatchSize /\ ~(BatchSize > 1 /\ n = 1)) =>
        /\ pc = "done"
        /\ result = Err("ValidationError")

\* C6: for a prompt of batch size B > 1 and a negative prompt of batch size 1
\* the unconditional input of encode_prompt is B entries, each that negative
\* prompt; with guidance and no negative prompt it is B empty strings.
C6_UnconditionalInput ==
    LET neg == options.negative_prompt
        guided == options.guidance_scale > 1
    IN
    Encoded =>
        /\ (BatchSize > 1 /\ Len(neg) = 1) =>
              /\ negative_prompt = [j \in 1..BatchSize |-> neg[1]]
              /\ guided => uncond_input # <<>>
              /\ uncond_input # <<>> => uncond_input = [j \in 1..BatchSize |-> neg[1]]
        /\ (guided /\ neg = <<>>) => uncond_input = [j \in 1..BatchSize |-> ""]

C6_Witness ==
    /\ Encoded
    /\ BatchSize > 1
    /\ Len(options.negative_prompt) = 1
    /\ options.guidance_scale > 1
    /\ Len(uncond_input) = BatchSize

\* C7: the callback fires at step index i only if i is at or after the
\* warm-up threshold total_timesteps - steps * order, i is the final index or
\* (i + 1) mod order = 0, i mod frequency = 0 and, for Decoded and
\* ApproximateDecoded, i # 0; and at every step where all of these hold the
\* callback fires.
GateCondition(idx) ==
    LET len == Len(scheduler.timesteps)
        cb == options.callback
    IN  /\ idx >= len - options.steps * options.order
        /\ (idx = len - 1 \/ (idx + 1) % options.order = 0)
        /\ idx % cb.frequency = 0
        /\ cb.kind \in {"Decoded", "ApproximateDecoded"} => idx # 0

C7_CallbackGate ==
    /\ \A e \in 1..Len(gatelog) : gatelog[e].fired <=> GateCondition(gatelog[e].i)
    /\ \A c \in 1..Len(cblog) : GateCondition(cblog[c].i)

\* C8: with guidance_scale <= 1 the text embeddings have batch dimension B and
\* no unconditional half, the latent model input of every step has batch
\* dimension B, and the denoiser output goes to the scheduler step unchanged.
C8_GuidanceDisabled ==
    options.guidance_scale <= 1 =>
        /\ Encoded => text_embeddings = TextEncoderRun(prompt)
        /\ Encoded => text_embeddings.shape[1] = BatchSize /\ Rows(text_embeddings) = BatchSize
        /\ \A k \in 1..Len(steplog) :
               LET e == steplog[k] IN
               /\ e.latent_model_input.shape[1] = BatchSize
               /\ e.latent_model_input.rows = e.latents_in.rows
               /\ Rows(e.unet_out) = BatchSize
               /\ e.noise_pred = e.unet_out

C8_Witness ==
    /\ Started
    /\ options.guidance_scale <= 1
    /\ lpw
    /\ options.negative_prompt # <<>>
    /\ Len(steplog) > 1

\* C9: with guidance enabled the text embeddings have batch dimension 2B, the
\* first B rows being the unconditional (negative or empty prompt) embeddings
\* and the last B rows the prompt embeddings; at every step the latent model
\* input is the latents twice, 2B rows.
ExpectedUncond ==
    LET neg == options.negative_prompt IN
    IF neg = <<>> THEN [j \in 1..BatchSize |-> ""]
    ELSE IF Len(neg) = 1 THEN [j \in 1..BatchSize |-> neg[1]]
    ELSE neg

C9_GuidanceEnabledLayout ==
    options.guidance_scale > 1 =>
        /\ Encoded =>
              /\ text_embeddings.shape[1] = 2 * BatchSize
              /\ Rows(text_embeddings) = 2 * BatchSize
              /\ SubSeq(text_embeddings.rows, 1, BatchSize)
                    = [j \in 1..BatchSize |-> WordCode(ExpectedUncond[j])]
              /\ SubSeq(text_embeddings.rows, BatchSize + 1, 2 * BatchSize)
                    = [j \in 1..BatchSize |-> WordCode(prompt[j])]
        /\ \A k \in 1..Len(steplog) :
               LET e == steplog[k] IN
               /\ e.latent_model_input.shape[1] = 2 * BatchSize
               /\ e.latent_model_input.rows = e.latents_in.rows \o e.latents_in.rows
               /\ Rows(e.latents_in) = BatchSize
               /\ Rows(e.encoder_hidden_states) = Rows(e.latent_model_input)

C9_Witness ==
    /\ options.guidance_scale > 1
    /\ BatchSize = 2
    /\ options.negative_prompt = <<>>
    /\ Rows(text_embeddings) = 4
    /\ Len(steplog) > 1

\* C10: a successful call with batch size B, width W and height H returns
\* exactly B images, each W wide and H high, and the latents keep the shape
\* (B, 4, H/8, W/8) from sampling through every loop step to the final decode.
C10_ImagesAndLatentShape ==
    LET shape == <<BatchSize, 4, options.height \div 8, options.width \div 8>> IN
    /\ latents # NoTensor => latents.shape = shape /\ Rows(latents) = BatchSize
    /\ \A k \in 1..Len(steplog) :
           /\ steplog[k].latents_in.shape = shape
           /\ steplog[k].prev_sample.shape = shape
    /\ (pc = "done" /\ result.kind = "Ok") =>
           /\ Len(result.images) = BatchSize
           /\ \A j \in 1..Len(result.images) :
                  /\ result.images[j].width = options.width
                  /\ result.images[j].height = options.height

\* C11: whenever a txt2img call fails with an error, no image output has
\* been produced for the user (neither returned nor delivered to a callback)
\* and the caller's scheduler is as it was before the call.
C11_FailedCallLeavesNothing ==
    (pc = "done" /\ result.kind = "Err") =>
        /\ result.images = <<>>
        /\ \A c \in 1..Len(cblog) : cblog[c].images = <<>>
        /\ scheduler = FreshScheduler

\* number of occurrences of event e in the history
RECURSIVE Count(_, _)
Count(log, e) ==
    IF log = <<>> THEN 0
    ELSE (IF Head(log) = e THEN 1 ELSE 0) + Count(Tail(log), e)

\* position of the first / last occurrence of e in the history (0: none)
First(log, e) ==
    IF \E k \in 1..Len(log) : log[k] = e
    THEN CHOOSE k \in 1..Len(log) : log[k] = e /\ \A m \in 1..(k - 1) : log[m] # e
    ELSE 0
Last(log, e) ==
    IF \E k \in 1..Len(log) : log[k] = e
    THEN CHOOSE k \in 1..Len(log) : log[k] = e /\ \A m \in (k + 1)..Len(log) : log[m] # e
    ELSE 0

\* C12: each call of encode_prompt loads the Text Encoder stage exactly once
\* and releases it exactly once before returning, with one pass, two passes
\* or the long-prompt-weighted pass, and when an error ends it after the load.
C12_TextEncoderOnce ==
    /\ Count(events, <<"load", "TextEncoder">>) <= 1
    /\ Count(events, <<"drop", "TextEncoder">>) <= Count(events, <<"load", "TextEncoder">>)
    /\ "TextEncoder" \in resident <=> pc = "embed"
    /\ (pc \notin {"idle", "load_text_encoder", "embed"}
          /\ Count(events, <<"load", "TextEncoder">>) > 0) =>
           /\ Count(events, <<"load", "TextEncoder">>) = 1
           /\ Count(events, <<"drop", "TextEncoder">>) = 1
           /\ First(events, <<"load", "TextEncoder">>) < First(events, <<"drop", "TextEncoder">>)
           /\ \A k \in 1..Len(events) :
                  events[k] = <<"run", "TextEncoder">> =>
                      /\ First(events, <<"load", "TextEncoder">>) < k
                      /\ k < First(events, <<"drop", "TextEncoder">>)

C12_Witness ==
    /\ pc = "prepare"
    /\ ~lpw
    /\ options.guidance_scale > 1
    /\ Count(events, <<"run", "TextEncoder">>) = 2
    /\ Count(events, <<"drop", "TextEncoder">>) = 1

\* The trajectory of a call as a function of its arguments alone (explicit
\* seed, prompt, options, pipeline options) and of the scheduler's timesteps:
\* the text embeddings, and the latents after k scheduler steps.
ExpectedEmbeddings ==
    EncodeEmbeddings(lpw, prompt, options.guidance_scale > 1,
                     NormaliseNegativePrompt(Len(prompt), options.negative_prompt).value)

RECURSIVE ExpectedLatents(_)
ExpectedLatents(k) ==
    IF k = 0
    THEN LET shape == <<Len(prompt), 4, options.height \div 8, options.width \div 8>>
             noise == SampleLatents(shape, [seed |-> options.seed[1], draws |-> 0])
         IN  Tensor(shape, [j \in 1..Len(prompt) |-> noise.rows[j] * InitNoiseSigma])
    ELSE LET x == ExpectedLatents(k - 1)
             t == scheduler.timesteps[k]
             guided == options.guidance_scale > 1
             out == UNetRun(ScaleModelInput(LatentModelInput(guided, x), t), t, ExpectedEmbeddings)
         IN  SchedulerStep(NoisePred(guided, out, options.guidance_scale), t, x)

\* C13: two calls with the same explicit seed, prompt, options and a
\* deterministic scheduler in the same state go through the same sequence of
\* latents and return identical images: with an explicit seed the initial
\* noise, every per-step update and the returned images are the values that
\* the arguments determine; the generator is seeded once from that seed and is
\* the one handed to latent sampling and to every scheduler step.
C13_SeedDeterminesTrajectory ==
    (Started /\ options.seed # <<>>) =>
        /\ rng.seed = options.seed[1]
        /\ rng.draws = IF latents = NoTensor THEN 0 ELSE Product(latents.shape)
        /\ Encoded => text_embeddings = ExpectedEmbeddings
        /\ latents # NoTensor => latents = ExpectedLatents(Len(steplog))
        /\ \A k \in 1..Len(steplog) :
               /\ steplog[k].i = k - 1
               /\ steplog[k].rng.seed = options.seed[1]
               /\ steplog[k].latents_in = ExpectedLatents(k - 1)
               /\ steplog[k].prev_sample = ExpectedLatents(k)
        /\ (pc = "done" /\ result.kind = "Ok") =>
               result.images = Unwrap(DecodeLatents(ExpectedLatents(Len(steplog))))

C13_Witness ==
    /\ pc = "done"
    /\ result.kind = "Ok"
    /\ options.seed = <<2>>
    /\ Len(steplog) = 3

\* every image the program has produced so far: returned, pending for a
\* callback, or delivered to one
ProducedImages ==
    {result.images[j] : j \in 1..Len(result.images)}
      \cup {payload[j] : j \in 1..Len(payload)}
      \cup UNION {{cblog[c].images[j] : j \in 1..Len(cblog[c].images)} : c \in 1..Len(cblog)}

\* C14: for every input latent tensor, extreme magnitudes (+/-1000) included,
\* every pixel value of every image produced by approximate_decode_latents
\* and by decode_latents lies in [0, 1] (pixel values are in thousandths).
C14_PixelsInUnitRange ==
    /\ \A img \in ProducedImages : 0 <= img.pixel /\ img.pixel <= 1000
    /\ (pc = "done" /\ result.kind = "Ok") => Len(result.images) = Rows(latents)

C14_Witness ==
    /\ pc = "done"
    /\ result.kind = "Ok"
    /\ decode_for = "final"
    /\ latents.rows = <<-1000, 1000>>
    /\ result.images[1].pixel = 0
    /\ result.images[2].pixel = 1000

\* the gate conditions of C7 other than the warm-up threshold
RemainingGateCondition(idx) ==
    LET len == Len(scheduler.timesteps)
        cb == options.callback
    IN  /\ (idx = len - 1 \/ (idx + 1) % options.order = 0)
        /\ idx % cb.frequency = 0
        /\ cb.kind \in {"Decoded", "ApproximateDecoded"} => idx # 0

\* C15: when the scheduler's timestep count is smaller than steps * order, so
\* that the warm-up threshold is negative, the threshold counts as always
\* satisfied: the call does not abort because of the subtraction, with or
\* without a callback, and the callback fires at every step that meets the
\* remaining gate conditions.
C15_NegativeThresholdAlwaysSatisfied ==
    (scheduler.timesteps # <<>>
        /\ Len(scheduler.timesteps) < options.steps * options.order) =>
        /\ result # Panic("attempt to subtract with overflow")
        /\ \A e \in 1..Len(gatelog) :
               RemainingGateCondition(gatelog[e].i) => gatelog[e].fired

Stages == {"TextEncoder", "UNet", "VaeDecoder"}

\* C16: every model stage a txt2img call loads is released on every exit path:
\* when the call has returned (completion, cancellation, or any error after
\* the load) no stage it loaded is still resident.
C16_StagesReleasedOnExit ==
    /\ resident \subseteq Stages
    /\ \A s \in Stages :
           Count(events, <<"load", s>>) - Count(events, <<"drop", s>>)
               = IF s \in resident THEN 1 ELSE 0
    /\ pc = "done" =>
           /\ resident = {}
           /\ \A s \in Stages : Count(events, <<"load", s>>) = Count(events, <<"drop", s>>)

C16_Witness ==
    /\ pc = "done"
    /\ result = Err("InferenceError")
    /\ options.callback.kind = "Decoded"
    /\ decode_for = "callback"
    /\ Count(events, <<"load", "VaeDecoder">>) = 1
    /\ Count(events, <<"drop", "UNet">>) = 1
    /\ resident = {}

\* the Latent Decoder has been loaded for the final decode of a txt2img call
FinalDecodeLoaded ==
    /\ decode_for = "final"
    /\ steplog # <<>>
    /\ pc = "decode_run" \/ (pc = "done" /\ result.kind = "Ok")

\* C17: in every call that reaches the final decode the stage events are in
\* this order: Text Encoder loaded and released, then Denoiser loaded, then
\* Denoiser released, and only then the Latent Decoder loaded for the final
\* decode, after the last timestep as after a cancellation.
C17_StageOrder ==
    FinalDecodeLoaded =>
        /\ 0 < First(events, <<"load", "TextEncoder">>)
        /\ First(events, <<"load", "TextEncoder">>) < Last(events, <<"drop", "TextEncoder">>)
        /\ Last(events, <<"drop", "TextEncoder">>) < First(events, <<"load", "UNet">>)
        /\ First(events, <<"load", "UNet">>) = Last(events, <<"load", "UNet">>)
        /\ Last(events, <<"load", "UNet">>) < First(events, <<"drop", "UNet">>)
        /\ First(events, <<"drop", "UNet">>) = Last(events, <<"drop", "UNet">>)
        /\ Last(events, <<"drop", "UNet">>) < Last(events, <<"load", "VaeDecoder">>)
        /\ "UNet" \notin resident
        /\ "TextEncoder" \notin resident

C17_Witness ==
    /\ pc = "decode_run"
    /\ decode_for = "final"
    /\ cblog # <<>>
    /\ ~cblog[Len(cblog)].keep_going
    /\ Len(steplog) < Len(scheduler.timesteps)
    /\ resident = {"VaeDecoder"}

Cancelled == cblog # <<>> /\ ~cblog[Len(cblog)].keep_going

\* the three outcomes of a finished call
CompletedOutcome ==
    result.kind = "Ok" /\ ~Cancelled /\ Len(steplog) = Len(scheduler.timesteps)
StoppedOutcome == result.kind = "Ok" /\ Cancelled
\* an error is the Err the call returns; a panic returns nothing
ErrorOutcome == result.kind = "Err"

\* no step index is visited twice and nothing is run again after it ran
NothingRepeated ==
    /\ \A k \in 1..Len(steplog) : steplog[k].i = k - 1
    /\ \A e \in 1..Len(gatelog) : \A f \in 1..Len(gatelog) :
           e < f => gatelog[e].i < gatelog[f].i
    /\ Len(steplog) <= Len(scheduler.timesteps)
    /\ Count(events, <<"run", "UNet">>) = Len(steplog)
    /\ Count(events, <<"step", "Scheduler">>) = Len(steplog)
    /\ scheduler.steps_taken = Len(steplog)
    /\ Count(events, <<"load", "TextEncoder">>) <= 1
    /\ Count(events, <<"load", "UNet">>) <= 1
    /\ Count(events, <<"set_timesteps", "Scheduler">>) <= 1
    /\ result.kind # "None" => pc = "done"

ExactlyOneOutcome ==
    pc = "done" =>
        Cardinality({o \in {"completed", "stopped", "error"} :
                        \/ o = "completed" /\ CompletedOutcome
                        \/ o = "stopped" /\ StoppedOutcome
                        \/ o = "error" /\ ErrorOutcome}) = 1

CompletedCall == pc = "done" /\ result.kind = "Ok" /\ ~Cancelled

\* C19: in a txt2img call that is not cancelled and does not fail the UNet is
\* loaded exactly once; for each index of the scheduler's timestep sequence,
\* in increasing order, the UNet is run once and the scheduler step applied
\* once, so the number of UNet runs is the length of the sequence; and the
\* text embeddings handed to the UNet are the same value at every step.
C19_OneDenoiserRunPerTimestep ==
    CompletedCall =>
        /\ Count(events, <<"load", "UNet">>) = 1
        /\ Len(steplog) = Len(scheduler.timesteps)
        /\ \A k \in 1..Len(steplog) :
               /\ steplog[k].i = k - 1
               /\ steplog[k].t = scheduler.timesteps[k]
               /\ steplog[k].encoder_hidden_states = text_embeddings
               /\ steplog[k].encoder_hidden_states = steplog[1].encoder_hidden_states
        /\ Count(events, <<"run", "UNet">>) = Len(scheduler.timesteps)
        /\ Count(events, <<"step", "Scheduler">>) = Len(scheduler.timesteps)
        /\ scheduler.steps_taken = Len(scheduler.timesteps)
        /\ First(events, <<"load", "UNet">>) < First(events, <<"run", "UNet">>)
        /\ Last(events, <<"step", "Scheduler">>) < First(events, <<"drop", "UNet">>)

C19_Witness ==
    /\ CompletedCall
    /\ Len(steplog) = 3
    /\ cblog # <<>>
    /\ DoClassifierFreeGuidance(options.guidance_scale)

\* C20: the callback is invoked at most once per step index, with strictly
\* increasing indices over a call, and always after the scheduler step of
\* that index has replaced the latents: the payload of a Latents, Decoded or
\* ApproximateDecoded callback at index i is (the decode of) the latents the
\* scheduler step of index i produced, never the latents that step was given.
C20_CallbackSeesStepOutput ==
    /\ \A c \in 1..Len(cblog) : \A d \in 1..Len(cblog) :
           c < d => cblog[c].i < cblog[d].i
    /\ \A c \in 1..Len(cblog) :
           /\ cblog[c].i + 1 <= Len(steplog)
           /\ steplog[cblog[c].i + 1].i = cblog[c].i
           /\ cblog[c].kind = "Latents" =>
                  cblog[c].latents = StepOutput(cblog[c].i)
           /\ cblog[c].kind = "Decoded" =>
                  cblog[c].images = Unwrap(DecodeLatents(StepOutput(cblog[c].i)))
           /\ cblog[c].kind = "ApproximateDecoded" =>
                  cblog[c].images =
                      Unwrap(ApproximateDecodeLatents(StepOutput(cblog[c].i)))
    /\ pc \in {"invoke_callback", "decode_load", "decode_run"} /\ decode_for # "final" =>
           /\ Len(steplog) = i + 1
           /\ latents = StepOutput(i)

\* a Decoded callback whose images differ from the decode of the step's input
C20_Witness ==
    \E c \in 1..Len(cblog) :
        /\ cblog[c].kind = "Decoded"
        /\ steplog[cblog[c].i + 1].latents_in # StepOutput(cblog[c].i)
        /\ AllConstructed(DecodeLatents(steplog[cblog[c].i + 1].latents_in))
        /\ cblog[c].images # Unwrap(DecodeLatents(steplog[cblog[c].i + 1].latents_in))

====
